---------------------------- MODULE Spec2Model ----------------------------
(***************************************************************************)
(* Card detection / validation state machine of app.py.                    *)
(*                                                                         *)
(* Threads: the Poller (card_check_loop), the Validators                    *)
(* (validate_card_async, one thread per spawn).  Shared state: the module   *)
(* globals last_uid, reading_in_progress, pending_validations (under        *)
(* pending_validations_lock) and the threading.Event of every Validator.    *)
(*                                                                         *)
(* card_check_loop declares `global last_uid, last_validation_result,       *)
(* nfc_reader_available` only (line 547) and assigns reading_in_progress    *)
(* (lines 567, 606, 663): in that function the name is a LOCAL variable.    *)
(* The model keeps the two apart: rip is the Poller's local, g_rip the      *)
(* module global written by validate_card_async (line 533).  Reading the    *)
(* local before its first assignment raises UnboundLocalError.              *)
(*                                                                         *)
(* Spec is the program as started: the frame of card_check_loop has no      *)
(* binding for reading_in_progress, the guard of line 562 faults on the     *)
(* first uid read, and nothing past it runs.  SpecLoop is the loop body     *)
(* past that guard: the same statements in a frame where the local is       *)
(* bound to False on entry, together with the Validators they spawn.  The   *)
(* Validators write the module global; the loop body reads its local.       *)
(* SpecFaults is SpecLoop with a Notifier that can fail: every socketio.emit *)
(* call of the Poller may raise.  SpecLoopFair is SpecLoop under fair      *)
(* scheduling of the Validator threads.                                    *)
(*                                                                         *)
(* Six parts of the program are followed on their own, each with the rest  *)
(* of the state at rest: validate_card_with_database over every end of its *)
(* POST (SpecValidate); the blocks of pending_validations_lock, taken apart*)
(* into acquire, work and release (SpecLock); the reader handle between the*)
(* Poller and the reinitialisation thread (SpecReader); and the server thread*)
(* of server.py (SpecServer); the startup retry loop of the main thread    *)
(* (SpecStartup, SpecStartupFair with the main thread scheduled); and      *)
(* perform_update with the functions it calls (SpecUpdate).                *)
(*                                                                         *)
(* An episode runs from one card_processing emission to the next.  ep       *)
(* counts them; events holds the emits of one episode (watch), the Poller's *)
(* and those of the Validator spawned in it, in call order.  Which episode  *)
(* is on record is chosen when it begins, so a state property of events     *)
(* that holds in every reachable state holds of every episode.              *)
(***************************************************************************)
EXTENDS Integers, Sequences, FiniteSets, TLC

\* ------------------------------------------------------------------ bounds
MaxEpisodes   == 2   \* card_processing emissions explored per behaviour
MaxValidators == 2   \* Validator threads alive at the same time
MaxCalls      == 6   \* calls of start_server_in_thread explored per behaviour
MaxHandles    == 6   \* nfc.Reader() instances created per behaviour
MaxFaults     == 6
max_startup_attempts == 5
MaxTag        == 2   \* ticks ending in the exception handler explored per behaviour

\* --------------------------------------------------------- program constants
CARD_STABILITY_CHECKS == 1

\* ------------------------------------------------------------------ values
None    == "none"
Unbound == "unbound"   \* a local name without a binding
True    == "True"
False   == "False"
Uids    == {"A", "B"}
Raised  == "raised"    \* a call left by an exception instead of a return

\* What the reader and its library do during one call of
\* try_connect_and_get_uid: py_acr122u is not installed (line 394),
\* nfc.Reader() raises (398), connect() or get_uid() raises (404, 405),
\* get_uid() gives an empty response (408), or it gives the uid of a card
ReaderOutcomes == {"no_library", "create_raises", "call_raises", "empty"} \cup Uids

\* the function without the except clause of line 429
try_connect_and_get_uid_Propagates(o) ==
  IF o = "no_library" THEN None
  ELSE IF o = "create_raises" THEN Raised
  ELSE IF o = "call_raises" THEN None
  ELSE IF o = "empty" THEN None
  ELSE o

\* lines 391-437: the value the call gives back
try_connect_and_get_uid(o) ==
  IF o = "no_library" THEN None              \* line 396
  ELSE IF o = "create_raises" THEN None      \* lines 429-437
  ELSE IF o = "call_raises" THEN None        \* lines 418-427
  ELSE IF o = "empty" THEN None              \* lines 414-416
  ELSE o                                     \* lines 409-412

ReadResults == {try_connect_and_get_uid(o) : o \in ReaderOutcomes}
Slots   == 1..MaxValidators
Terminal == {"card_success", "card_unauthorized",
             "card_processing_cancelled", "card_validation_error"}

\* How the POST of line 276 can end: a 2xx response, a response with another
\* status, requests.exceptions.Timeout, another RequestException, any other
\* Exception
ServiceOutcomes == {"valid", "invalid", "timeout", "transport", "exception"}
ServiceFailures == {"timeout", "transport", "exception"}

\* what a Validator's state keeps of the way its call ended: the answer of
\* the service, or that the call failed
Answered(o) == IF o \in ServiceFailures THEN "failed" ELSE o

VARIABLES
  pc,          \* position of the Poller inside card_check_loop
  uid,         \* Poller local: the tick's read (line 558)
  sampled_uid, \* Poller local (line 581)
  checks,      \* Poller local (line 582)
  cur,         \* Poller local (lines 586, 655, 659)
  rip,         \* Poller local reading_in_progress: Unbound, True or False
  last_uid,    \* module global (line 450)
  g_rip,       \* module global reading_in_progress (line 452)
  pending,     \* pending_validations: uid -> slot of the Validator owning the Event, 0: no entry
  val,         \* Validator threads: slot -> [pc, uid, outcome, is_valid, cancel, ep]
  ep,          \* number of card_processing emissions so far (episode counter)
  watch,       \* the episode whose emits are on record, 0: none
  events,      \* the socketio.emit calls of episode watch, in call order
  faults,      \* the reads of the ticks that ended in the handler of line 684
  recording,   \* whether the emits of an episode may be put on record
  response,    \* validate_card_with_database called on its own: how the POST of line 276 ended
  returned,    \* ... and what the call gave back ("pending": not yet)
  srv,         \* the threads start_server_in_thread has created, in order: "starting", "serving" or "dead"
  server_thread, \* server.py global _server_thread: an index of srv, 0: None
  caller,      \* the thread that calls into server.py: "idle", or "sleeping" inside restart_web_server
  calls,       \* calls of start_server_in_thread made so far
  reader,      \* module global reader (line 43): the instance it refers to, 0: None
  made,        \* nfc.Reader() instances created so far
  open,        \* the instances not yet closed
  rd,          \* the Poller inside try_connect_and_get_uid: "out", or "in" once it has a reader (line 399)
  reinit,      \* the thread of handle_reinitialize_nfc_reader: "idle", "cleanup" or "test"
  nfc_reader_available,  \* module global (line 44)
  lock,        \* pending_validations_lock: the thread holding it, Unlocked: none
  ppc,         \* the Poller at its critical sections: "out", "get", "check" or "insert"
  key,         \* the uid the Poller's critical section is about
  mpc,         \* the main thread at the startup loop: "before", "loop", "serving", "waiting", "sleeping", "done"
  startup_attempt,  \* line 1711
  server_started,   \* line 1712
  port_busy,   \* whether another process holds the port
  kill_port,   \* args.kill_port
  left_by,     \* how the loop was left: "none", "condition", "break", "interrupt" or "uncaught"
  port_wait,   \* what the last wait_for_port_available returned (None before the first)
  upc,         \* a call of perform_update: "idle", "backup", "download", "apply", "done"
  release_info,     \* the tag check_for_updates returned, NoRelease for None
  version_file,     \* the tag in the version file, 0 for the default 'v0.0.0'
  backup_dir,       \* what backup_current_files returned: None, True (a path) or False (None)
  downloaded,       \* what download_release_files returned (None before the call)
  staged,      \* the .new files on disk
  replaced,    \* the installed files replaced by this call
  update_result,    \* what perform_update returned (None while it runs)
  uevents,     \* the events emitted by this call, in order
  ulog         \* the functions this call has called, in order

\* card_check_loop and the Validators
core == <<pc, uid, sampled_uid, checks, cur, rip, last_uid, g_rip,
          pending, val, ep, watch, events, faults>>

callVars == <<response, returned>>

serverVars == <<srv, server_thread, caller, calls>>

readerVars == <<reader, made, open, rd, reinit, nfc_reader_available>>

lockVars == <<lock, ppc, key>>

updateVars == <<upc, release_info, version_file, backup_dir, downloaded, staged, replaced,
                update_result, uevents, ulog>>

startupVars == <<mpc, startup_attempt, server_started, port_busy, kill_port, left_by, port_wait>>

\* what card_check_loop and validate_card_async leave alone
side == <<recording, callVars, serverVars, readerVars, lockVars, startupVars, updateVars>>

vars == <<core, side>>

pollerLocals == <<uid, sampled_uid, checks, cur, rip>>

IdleSlot == [pc |-> "idle", uid |-> None, outcome |-> None, is_valid |-> FALSE,
             cancel |-> FALSE, ep |-> 0, sent |-> 0]

\* one socketio.emit call: name, payload uid, payload progress (-1: none),
\* episode it belongs to (the Poller's current one, resp. the one that spawned
\* the Validator), emitting thread ("P": Poller, "V": a Validator)
Ev(n, u, p, e, by) == [n |-> n, u |-> u, p |-> p, e |-> e, by |-> by]

\* The record holds the emits of one episode, chosen when the episode begins;
\* every episode can be the chosen one.  No guard of the program reads it.
\* Emits of episode e, in call order:
Emit(e, evs) == events' = IF e = watch /\ e # 0 THEN events \o evs ELSE events

InFlightFor(e) == \E i \in Slots : val[i].pc # "idle" /\ val[i].ep = e

\* state after module import (lines 450-457); the Poller frame has no binding
\* for its local reading_in_progress yet
CoreInit(flag) ==
  /\ pc = "tick"
  /\ uid = None /\ sampled_uid = None /\ checks = 0 /\ cur = None
  /\ rip = flag
  /\ last_uid = None
  /\ g_rip = FALSE
  /\ pending = [u \in Uids |-> 0]
  /\ val = [i \in Slots |-> IdleSlot]
  /\ ep = 0
  /\ watch = 0
  /\ events = << >>
  /\ faults = << >>

\* no call of validate_card_with_database outside a Validator
NoResponse == [exc |-> None, status |-> 0]

CallIdle == response = NoResponse /\ returned = None

\* server.py after import (line 51), nothing calling into it
ServerIdle == srv = << >> /\ server_thread = 0 /\ caller = "idle" /\ calls = 0

\* lines 43-44: no reader instance yet; no reinitialisation requested
ReaderIdle ==
  /\ reader = 0 /\ made = 0 /\ open = {}
  /\ rd = "out" /\ reinit = "idle"
  /\ nfc_reader_available = FALSE

\* threads as holders of pending_validations_lock: a Validator by its slot
Unlocked == 0
PollerId == MaxValidators + 1

NoRelease == 0
Tags == 1..MaxTag
Files == {"app.py", "index.html"}

\* perform_update is not running; no .new file is left on disk
UpdateIdle ==
  /\ upc = "idle" /\ release_info = NoRelease /\ version_file = 0
  /\ backup_dir = None /\ downloaded = None /\ staged = {} /\ replaced = {}
  /\ update_result = None /\ uevents = << >> /\ ulog = << >>

\* the main thread has not reached the startup loop of line 1714
StartupIdle ==
  /\ mpc = "before" /\ startup_attempt = 0 /\ server_started = FALSE
  /\ port_busy = FALSE /\ kill_port = FALSE /\ left_by = "none" /\ port_wait = None

\* line 457: the lock is free
LockIdle == lock = Unlocked /\ ppc = "out" /\ key = None

Init == CoreInit(Unbound) /\ recording = TRUE /\ CallIdle /\ ServerIdle /\ ReaderIdle /\ LockIdle /\ StartupIdle /\ UpdateIdle

\* ---------------------------------------------------------------- helpers

\* cancel_event = pending_validations.get(u); if cancel_event: cancel_event.set()
SetToken(u) ==
  IF u \in Uids /\ pending[u] # 0
  THEN val' = [val EXCEPT ![pending[u]].cancel = TRUE]
  ELSE UNCHANGED val

\* progress = 10 + int(30 * (checks / float(CARD_STABILITY_CHECKS)))
StabilityProgress(c) == 10 + ((30 * c) \div CARD_STABILITY_CHECKS)

\* Where a sampling loop can be after a sample that did not end it: its clock
\* (1.0 s, resp. CARD_PROCESSING_GRACE_PERIOD) may have run out during any
\* sample, a read of the reader taking as long as the reader takes.
AfterSample(again, out) == {again, out}

FreeSlots == {i \in Slots : val[i].pc = "idle"}

\* validate_card_with_database with every failure of the call answered True
validate_card_with_database_FailOpen(o) == o # "invalid"

\* lines 269-298: True for a 2xx response, False for any other response and
\* from each of the three except clauses; no exception leaves the function
validate_card_with_database(o) == o = "valid"

\* ------------------------------------------------------------------ Poller

\* A tick whose read leads to none of the branches of lines 562, 640 and 650
\* does nothing and the loop sleeps (line 698) until the next tick.
NoOpTick ==
  /\ pc' = "tick"
  /\ uid' = None
  /\ UNCHANGED <<last_uid, rip, faults>>

\* PollRead with the guard of line 562 reduced to uid != last_uid
PollRead_IgnoresFlag ==
  /\ pc = "tick"
  /\ \E r \in ReadResults :
       IF r # None
       THEN IF r = last_uid
            THEN NoOpTick
            ELSE IF rip = Unbound
            THEN /\ pc' = "except"          \* UnboundLocalError at line 562
                 /\ uid' = r
                 /\ Len(faults) < MaxFaults
                 /\ faults' = Append(faults, r)
                 /\ UNCHANGED <<last_uid, rip>>
            ELSE /\ ep < MaxEpisodes
                 /\ last_uid' = r           \* line 563
                 /\ rip' = True             \* line 567
                 /\ pc' = "begin"
                 /\ uid' = r
                 /\ UNCHANGED <<faults>>
       ELSE IF last_uid = None
            THEN NoOpTick
            ELSE IF rip = Unbound
            THEN /\ pc' = "except"          \* UnboundLocalError at line 640
                 /\ uid' = r
                 /\ Len(faults) < MaxFaults
                 /\ faults' = Append(faults, r)
                 /\ UNCHANGED <<last_uid, rip>>
            ELSE IF rip = False
            THEN /\ pc' = "removed"         \* line 641
                 /\ uid' = r
                 /\ UNCHANGED <<last_uid, rip, faults>>
            ELSE /\ pc' = "grace"           \* line 652
                 /\ uid' = r
                 /\ UNCHANGED <<last_uid, rip, faults>>
  /\ UNCHANGED <<sampled_uid, checks, cur, g_rip, pending, val, ep, watch, events>>
  /\ UNCHANGED side

\* lines 558-567, 638-652 and 698: one read, then the branch taken on it
PollRead ==
  /\ pc = "tick"
  /\ \E r \in ReadResults :
       IF r # None
       THEN IF r = last_uid
            THEN NoOpTick
            ELSE IF rip = Unbound
            THEN /\ pc' = "except"          \* UnboundLocalError at line 562
                 /\ uid' = r
                 /\ Len(faults) < MaxFaults
                 /\ faults' = Append(faults, r)
                 /\ UNCHANGED <<last_uid, rip>>
            ELSE IF rip = True
            THEN NoOpTick
            ELSE /\ ep < MaxEpisodes
                 /\ last_uid' = r           \* line 563
                 /\ rip' = True             \* line 567
                 /\ pc' = "begin"
                 /\ uid' = r
                 /\ UNCHANGED <<faults>>
       ELSE IF last_uid = None
            THEN NoOpTick
            ELSE IF rip = Unbound
            THEN /\ pc' = "except"          \* UnboundLocalError at line 640
                 /\ uid' = r
                 /\ Len(faults) < MaxFaults
                 /\ faults' = Append(faults, r)
                 /\ UNCHANGED <<last_uid, rip>>
            ELSE IF rip = False
            THEN /\ pc' = "removed"         \* line 641
                 /\ uid' = r
                 /\ UNCHANGED <<last_uid, rip, faults>>
            ELSE /\ pc' = "grace"           \* line 652
                 /\ uid' = r
                 /\ UNCHANGED <<last_uid, rip, faults>>
  /\ UNCHANGED <<sampled_uid, checks, cur, g_rip, pending, val, ep, watch, events>>
  /\ UNCHANGED side

\* lines 568-583: the two emits that open the Detection Protocol.  The record
\* turns to the new episode, or stays with the one it holds as long as that
\* one has a Validator alive; else it is dropped.
BeginDetection ==
  /\ pc = "begin"
  /\ ep' = ep + 1
  /\ \/ /\ watch' = ep + 1
        /\ recording
        /\ ~InFlightFor(watch)
        /\ events' = <<Ev("card_processing", uid, -1, ep + 1, "P"),
                       Ev("card_progress", uid, 10, ep + 1, "P")>>
     \/ /\ watch' = IF InFlightFor(watch) THEN watch ELSE 0
        /\ events' = IF InFlightFor(watch) THEN events ELSE << >>
  /\ sampled_uid' = uid
  /\ checks' = 0
  /\ pc' = "stab"
  /\ UNCHANGED <<uid, cur, rip, last_uid, g_rip, pending, val, faults>>
  /\ UNCHANGED side

\* StabSample with the tracked uid following the target (last_uid = cur
\* next to line 597)
StabSample_TracksTarget ==
  /\ pc = "stab"
  /\ \E r \in ReadResults :
       /\ cur' = r
       /\ IF r = sampled_uid
          THEN /\ checks' = checks + 1
               /\ Emit(ep, <<Ev("card_progress", sampled_uid, StabilityProgress(checks + 1), ep, "P")>>)
               /\ UNCHANGED <<sampled_uid, last_uid>>
               /\ IF checks + 1 >= CARD_STABILITY_CHECKS
                  THEN pc' = "post"
                  ELSE pc' \in AfterSample("stab", "post")
          ELSE /\ sampled_uid' = r
               /\ last_uid' = r
               /\ checks' = 0
               /\ UNCHANGED events
               /\ IF r = None
                  THEN pc' = "post"
                  ELSE pc' \in AfterSample("stab", "post")
  /\ UNCHANGED <<uid, rip, g_rip, pending, val, ep, watch, faults>>
  /\ UNCHANGED side

\* lines 584-601: one iteration of the stability sampling loop and the loop
\* condition that follows it
StabSample ==
  /\ pc = "stab"
  /\ \E r \in ReadResults :
       /\ cur' = r
       /\ IF r = sampled_uid
          THEN /\ checks' = checks + 1
               /\ Emit(ep, <<Ev("card_progress", sampled_uid, StabilityProgress(checks + 1), ep, "P")>>)
               /\ UNCHANGED sampled_uid
               /\ IF checks + 1 >= CARD_STABILITY_CHECKS
                  THEN pc' = "post"
                  ELSE pc' \in AfterSample("stab", "post")
          ELSE /\ sampled_uid' = r
               /\ checks' = 0
               /\ UNCHANGED events
               /\ IF r = None
                  THEN pc' = "post"             \* break, line 601
                  ELSE pc' \in AfterSample("stab", "post")
  /\ UNCHANGED <<uid, rip, last_uid, g_rip, pending, val, ep, watch, faults>>
  /\ UNCHANGED side

\* lines 604-611 and 626-629: what follows the sampling loop
AfterStability ==
  /\ pc = "post"
  /\ IF sampled_uid = None
     THEN /\ rip' = False
          /\ Emit(ep, <<Ev("card_processing_cancelled", None, -1, ep, "P")>>)
          /\ pc' = "rm_cancel"
     ELSE /\ Emit(ep, <<Ev("card_progress", sampled_uid, 60, ep, "P")>>)
          /\ pc' = "spawn"
          /\ UNCHANGED rip
  /\ UNCHANGED <<uid, sampled_uid, checks, cur, last_uid, g_rip, pending, val, ep, watch, faults>>
  /\ UNCHANGED side

\* lines 612-623: continue, the sleep of line 698 is skipped
StabRemoved ==
  /\ pc = "rm_cancel"
  /\ SetToken(uid)
  /\ Emit(ep, <<Ev("card_progress", uid, 0, ep, "P")>>)
  /\ last_uid' = None
  /\ pc' = "tick"
  /\ uid' = None /\ sampled_uid' = None /\ checks' = 0 /\ cur' = None
  /\ UNCHANGED <<rip, g_rip, pending, ep, watch, faults>>
  /\ UNCHANGED side

\* Spawn for the uid the tick read (uid) where the code takes sampled_uid
Spawn_ForTickUid ==
  /\ pc = "spawn"
  /\ IF pending[uid] = 0
     THEN /\ FreeSlots # {}
          /\ LET i == CHOOSE j \in FreeSlots : \A k \in FreeSlots : j <= k
             IN /\ pending' = [pending EXCEPT ![uid] = i]
                /\ val' = [val EXCEPT ![i] = [pc |-> "v_start", uid |-> uid, outcome |-> None,
                                              is_valid |-> FALSE, cancel |-> FALSE, ep |-> ep, sent |-> 0]]
     ELSE UNCHANGED <<pending, val>>
  /\ pc' = "sleep"
  /\ UNCHANGED <<pollerLocals, last_uid, g_rip, ep, watch, events, faults>>
  /\ UNCHANGED side

\* Spawn without the membership test of line 632
Spawn_NoDedup ==
  /\ pc = "spawn"
  /\ FreeSlots # {}
  /\ LET i == CHOOSE j \in FreeSlots : \A k \in FreeSlots : j <= k
     IN /\ pending' = [pending EXCEPT ![sampled_uid] = i]
        /\ val' = [val EXCEPT ![i] = [pc |-> "v_start", uid |-> sampled_uid, outcome |-> None,
                                      is_valid |-> FALSE, cancel |-> FALSE, ep |-> ep, sent |-> 0]]
  /\ pc' = "sleep"
  /\ UNCHANGED <<pollerLocals, last_uid, g_rip, ep, watch, events, faults>>
  /\ UNCHANGED side

\* lines 631-637: the spawn step, one critical section
Spawn ==
  /\ pc = "spawn"
  /\ IF pending[sampled_uid] = 0
     THEN /\ FreeSlots # {}
          /\ LET i == CHOOSE j \in FreeSlots : \A k \in FreeSlots : j <= k
             IN /\ pending' = [pending EXCEPT ![sampled_uid] = i]
                /\ val' = [val EXCEPT ![i] = [pc |-> "v_start", uid |-> sampled_uid, outcome |-> None,
                                              is_valid |-> FALSE, cancel |-> FALSE, ep |-> ep, sent |-> 0]]
     ELSE UNCHANGED <<pending, val>>
  /\ pc' = "sleep"
  /\ UNCHANGED <<pollerLocals, last_uid, g_rip, ep, watch, events, faults>>
  /\ UNCHANGED side

\* lines 641-648
PassiveRemoved ==
  /\ pc = "removed"
  /\ SetToken(last_uid)
  /\ last_uid' = None
  /\ pc' = "removed_emit"
  /\ UNCHANGED <<pollerLocals, g_rip, pending, ep, watch, events, faults>>
  /\ UNCHANGED side

\* line 649
PassiveRemovedEmit ==
  /\ pc = "removed_emit"
  /\ Emit(ep, <<Ev("reload", None, -1, ep, "P")>>)
  /\ pc' = "sleep"
  /\ UNCHANGED <<pollerLocals, last_uid, g_rip, pending, val, ep, watch, faults>>
  /\ UNCHANGED side

\* lines 653-657: one iteration of the grace loop
GraceSample ==
  /\ pc = "grace"
  /\ \E r \in ReadResults :
       /\ cur' = r
       /\ IF r # None
          THEN pc' = "grace_final"              \* break, line 657
          ELSE pc' \in AfterSample("grace", "grace_final")
  /\ UNCHANGED <<uid, sampled_uid, checks, rip, last_uid, g_rip, pending, val, ep, watch, events, faults>>
  /\ UNCHANGED side

\* GraceFinal without the test of line 660: cancels whatever the last read is
GraceFinal_AlwaysCancels ==
  /\ pc = "grace_final"
  /\ \E r \in ReadResults :
       /\ cur' = r
       /\ rip' = False
       /\ SetToken(last_uid)
       /\ last_uid' = None
       /\ pc' = "gc_emit"
  /\ UNCHANGED <<uid, sampled_uid, checks, g_rip, pending, ep, watch, events, faults>>
  /\ UNCHANGED side

\* lines 659-674: the read after the grace loop and the cancellation it decides
GraceFinal ==
  /\ pc = "grace_final"
  /\ \E r \in ReadResults :
       /\ cur' = r
       /\ IF r = None
          THEN /\ rip' = False
               /\ SetToken(last_uid)
               /\ last_uid' = None
               /\ pc' = "gc_emit"
          ELSE /\ pc' = "sleep"
               /\ UNCHANGED <<rip, val, last_uid>>
  /\ UNCHANGED <<uid, sampled_uid, checks, g_rip, pending, ep, watch, events, faults>>
  /\ UNCHANGED side

\* lines 675-682: the two emits of the cancellation; last_uid is None here
\* unless no Python thread ran between lines 673 and 680, and None then too
GraceCancelEmit ==
  /\ pc = "gc_emit"
  /\ Emit(ep, <<Ev("card_processing_cancelled", None, -1, ep, "P"),
                 Ev("card_progress", last_uid, 0, ep, "P")>>)
  /\ pc' = "sleep"
  /\ UNCHANGED <<pollerLocals, last_uid, g_rip, pending, val, ep, watch, faults>>
  /\ UNCHANGED side

\* lines 684-694: the handler of the tick's try block
HandleException ==
  /\ pc = "except"
  /\ IF last_uid # None
     THEN /\ SetToken(last_uid)
          /\ last_uid' = None
          /\ pc' = "exc_emit"
     ELSE /\ pc' = "sleep"
          /\ UNCHANGED <<val, last_uid>>
  /\ UNCHANGED <<pollerLocals, g_rip, pending, ep, watch, events, faults>>
  /\ UNCHANGED side

\* line 695
HandleExceptionEmit ==
  /\ pc = "exc_emit"
  /\ Emit(ep, <<Ev("reload", None, -1, ep, "P")>>)
  /\ pc' = "sleep"
  /\ UNCHANGED <<pollerLocals, last_uid, g_rip, pending, val, ep, watch, faults>>
  /\ UNCHANGED side

\* A socketio.emit call of card_check_loop raises.  None of the calls of
\* lines 568-682 has a try of its own: the exception leaves the try block of
\* line 556 at the call, with the assignments made before it in place, and
\* reaches the handler of line 684.
PollerEmitRaises ==
  /\ \/ /\ pc = "begin"                               \* line 568
        /\ UNCHANGED <<sampled_uid, checks, cur, rip, val, ep, watch, events>>
     \/ /\ pc = "begin"                               \* line 574
        /\ ep' = ep + 1
        /\ \/ /\ watch' = ep + 1
              /\ recording
              /\ ~InFlightFor(watch)
              /\ events' = <<Ev("card_processing", uid, -1, ep + 1, "P")>>
           \/ /\ watch' = IF InFlightFor(watch) THEN watch ELSE 0
              /\ events' = IF InFlightFor(watch) THEN events ELSE << >>
        /\ UNCHANGED <<sampled_uid, checks, cur, rip, val>>
     \/ /\ pc = "stab"                                \* line 591
        /\ sampled_uid # None
        /\ cur' = sampled_uid
        /\ checks' = checks + 1
        /\ UNCHANGED <<sampled_uid, rip, val, ep, watch, events>>
     \/ /\ pc = "post" /\ sampled_uid = None           \* line 608
        /\ rip' = False
        /\ UNCHANGED <<sampled_uid, checks, cur, val, ep, watch, events>>
     \/ /\ pc = "post" /\ sampled_uid # None           \* line 626
        /\ UNCHANGED <<sampled_uid, checks, cur, rip, val, ep, watch, events>>
     \/ /\ pc = "rm_cancel"                           \* line 617
        /\ SetToken(uid)
        /\ UNCHANGED <<sampled_uid, checks, cur, rip, ep, watch, events>>
     \/ /\ pc = "gc_emit"                             \* line 675
        /\ UNCHANGED <<sampled_uid, checks, cur, rip, val, ep, watch, events>>
     \/ /\ pc = "gc_emit"                             \* line 679
        /\ Emit(ep, <<Ev("card_processing_cancelled", None, -1, ep, "P")>>)
        /\ UNCHANGED <<sampled_uid, checks, cur, rip, val, ep, watch>>
  /\ pc' = "except"
  /\ UNCHANGED <<uid, last_uid, g_rip, pending, faults>>
  /\ UNCHANGED side

\* line 695 raises: the call is inside the handler, no try encloses it, the
\* exception leaves the while loop of line 555 and card_check_loop ends
HandleExceptionEmitRaises ==
  /\ pc = "exc_emit"
  /\ pc' = "dead"
  /\ UNCHANGED <<pollerLocals, last_uid, g_rip, pending, val, ep, watch, events, faults>>
  /\ UNCHANGED side

\* line 698.  uid, sampled_uid, checks and cur are assigned again before the
\* next tick reads them (lines 558, 581, 582, 586, 655), so their old values
\* are dropped here.
Sleep ==
  /\ pc = "sleep"
  /\ pc' = "tick"
  /\ uid' = None /\ sampled_uid' = None /\ checks' = 0 /\ cur' = None
  /\ UNCHANGED <<rip, last_uid, g_rip, pending, val, ep, watch, events, faults>>
  /\ UNCHANGED side

\* --------------------------------------------------------------- Validator

\* lines 466-481: the two emits that open the Validator
V_Start(i) ==
  /\ val[i].pc = "v_start"
  /\ Emit(val[i].ep, <<Ev("card_validating", val[i].uid, -1, val[i].ep, "V"),
                        Ev("card_progress", val[i].uid, 70, val[i].ep, "V")>>)
  /\ val' = [val EXCEPT ![i].pc = "v_call"]
  /\ UNCHANGED <<pc, pollerLocals, last_uid, g_rip, pending, ep, watch, faults>>
  /\ UNCHANGED side

\* V_Check without the test of line 487
V_Check_IgnoresToken(i) ==
  /\ val[i].pc = "v_call"
  /\ \E o \in ServiceOutcomes :
       val' = [val EXCEPT ![i].outcome = Answered(o),
                          ![i].is_valid = validate_card_with_database(o),
                          ![i].pc = "v_result"]
  /\ UNCHANGED <<pc, pollerLocals, last_uid, g_rip, pending, ep, watch, events, faults>>
  /\ UNCHANGED side

\* V_Check for a call that a set token aborts: the Validator whose token is
\* set does not come back from line 484
V_Check_AbortedByToken(i) ==
  /\ val[i].pc = "v_call"
  /\ ~val[i].cancel
  /\ \E o \in ServiceOutcomes :
       val' = [val EXCEPT ![i].outcome = Answered(o),
                          ![i].is_valid = validate_card_with_database(o),
                          ![i].pc = "v_result"]
  /\ UNCHANGED <<pc, pollerLocals, last_uid, g_rip, pending, ep, watch, events, faults>>
  /\ UNCHANGED side

\* lines 484-487: validate_card_with_database returns a bool on every path
\* (259-298); the token is tested when the call has returned.  A Validator
\* that finds its token set never reads is_valid again.
V_Check(i) ==
  /\ val[i].pc = "v_call"
  /\ \E o \in ServiceOutcomes :
       val' = IF val[i].cancel
              THEN [val EXCEPT ![i].pc = "v_cancelled"]
              ELSE [val EXCEPT ![i].outcome = Answered(o),
                               ![i].is_valid = validate_card_with_database(o),
                               ![i].pc = "v_result"]
  /\ UNCHANGED <<pc, pollerLocals, last_uid, g_rip, pending, ep, watch, events, faults>>
  /\ UNCHANGED side

\* lines 488-496
V_Cancelled(i) ==
  /\ val[i].pc = "v_cancelled"
  /\ Emit(val[i].ep, <<Ev("card_processing_cancelled", val[i].uid, -1, val[i].ep, "V")>>)
  /\ val' = [val EXCEPT ![i].pc = "v_pop", ![i].sent = @ + 1]
  /\ UNCHANGED <<pc, pollerLocals, last_uid, g_rip, pending, ep, watch, faults>>
  /\ UNCHANGED side

\* lines 498-516: the final progress and the verdict
V_Result(i) ==
  /\ val[i].pc = "v_result"
  /\ Emit(val[i].ep, <<Ev("card_progress", val[i].uid, 100, val[i].ep, "V"),
                        Ev(IF val[i].is_valid THEN "card_success" ELSE "card_unauthorized",
                           val[i].uid, -1, val[i].ep, "V")>>)
  /\ val' = [val EXCEPT ![i].pc = "v_pop", ![i].is_valid = FALSE, ![i].outcome = None,
                     ![i].sent = @ + 1]
  /\ UNCHANGED <<pc, pollerLocals, last_uid, g_rip, pending, ep, watch, faults>>
  /\ UNCHANGED side

\* V_Pop without the pop of line 528
V_Pop_Skipped(i) ==
  /\ val[i].pc = "v_pop"
  /\ val' = [val EXCEPT ![i].pc = "v_clear"]
  /\ UNCHANGED <<pc, pollerLocals, last_uid, g_rip, pending, ep, watch, events, faults>>
  /\ UNCHANGED side

\* lines 526-530
V_Pop(i) ==
  /\ val[i].pc = "v_pop"
  /\ pending' = [pending EXCEPT ![val[i].uid] = 0]
  /\ val' = [val EXCEPT ![i].pc = "v_clear"]
  /\ UNCHANGED <<pc, pollerLocals, last_uid, g_rip, ep, watch, events, faults>>
  /\ UNCHANGED side

\* lines 532-534; the thread ends.  Nothing is emitted any more for an episode
\* the Poller has left and whose Validator has ended: its record is dropped.
V_Clear(i) ==
  /\ val[i].pc = "v_clear"
  /\ g_rip' = FALSE
  /\ last_uid' = None
  /\ val' = [val EXCEPT ![i] = IdleSlot]
  /\ IF val[i].ep = watch /\ watch < ep
     THEN watch' = 0 /\ events' = << >>
     ELSE UNCHANGED <<watch, events>>
  /\ UNCHANGED <<pc, pollerLocals, pending, ep, faults>>
  /\ UNCHANGED side

Validator(i) ==
  \/ V_Start(i) \/ V_Check(i)
  \/ V_Cancelled(i) \/ V_Result(i) \/ V_Pop(i) \/ V_Clear(i)

\* ---------------------------------------------------------- specifications

\* The program: card_check_loop as started at line 1670.  Its frame never
\* binds reading_in_progress before the guards of lines 562 and 640 read it,
\* so these are the steps the loop can take.
Next ==
  \/ PollRead
  \/ HandleException
  \/ Sleep

Spec == Init /\ [][Next]_vars

\* The loop body of card_check_loop in a frame whose local
\* reading_in_progress is bound to False on entry, with the Validators it
\* spawns.
InitLoop ==
  CoreInit(False) /\ recording = TRUE /\ CallIdle /\ ServerIdle /\ ReaderIdle /\ LockIdle /\ StartupIdle /\ UpdateIdle

PollerLoop ==
  \/ PollRead
  \/ BeginDetection
  \/ StabSample
  \/ AfterStability
  \/ StabRemoved
  \/ Spawn
  \/ GraceSample
  \/ GraceFinal
  \/ GraceCancelEmit
  \/ Sleep

NextLoop ==
  \/ PollerLoop
  \/ \E i \in Slots : Validator(i)

SpecLoop == InitLoop /\ [][NextLoop]_vars

\* SpecLoop with the scheduling of the threads: a Validator thread that can
\* take a step is not starved for ever.  Its only blocking statement is the
\* POST of line 276, which returns or raises within its timeout of 3 s;
\* pending_validations_lock is held for a few statements at a time.
\* The emits are not put on record here: each Validator counts its own
\* terminal emits in val[i].sent.
InitLoopFair ==
  CoreInit(False) /\ recording = FALSE /\ CallIdle /\ ServerIdle /\ ReaderIdle /\ LockIdle /\ StartupIdle /\ UpdateIdle

SpecLoopFair == InitLoopFair /\ [][NextLoop]_vars /\ \A i \in Slots : WF_vars(Validator(i))

\* ----------------------------------- validate_card_with_database on its own

\* the status codes response.status_code can carry (line 284)
Statuses == 100..599

\* how the POST of line 276 ends: with a response, or by raising
Responses ==
  [exc : {None}, status : Statuses] \cup [exc : ServiceFailures, status : {0}]

\* the end of the call as the Validator sees it
StatusClass(r) ==
  IF r.exc # None THEN r.exc
  ELSE IF 200 <= r.status /\ r.status < 300 THEN "valid" ELSE "invalid"

\* the except clauses of lines 290, 293 and 296, in their order
ExceptClauses == <<"timeout", "transport", "exception">>

\* requests.exceptions.Timeout is a RequestException, and every
\* RequestException is an Exception
IsInstance(x, c) ==
  \/ c = x
  \/ c = "transport" /\ x = "timeout"
  \/ c = "exception"

\* the function without its last except clause (line 296)
validate_card_with_database_call_Uncaught(r) ==
  IF r.exc = None
  THEN IF 200 <= r.status /\ r.status < 300 THEN True ELSE False
  ELSE IF \E k \in 1..2 : IsInstance(r.exc, ExceptClauses[k])
       THEN False
       ELSE Raised

\* lines 269-298: what the call gives back to its caller
validate_card_with_database_call(r) ==
  IF r.exc = None
  THEN IF 200 <= r.status /\ r.status < 300 THEN True ELSE False   \* lines 284, 288
  ELSE IF \E k \in 1..Len(ExceptClauses) : IsInstance(r.exc, ExceptClauses[k])
       THEN False                                                  \* lines 292, 295, 298
       ELSE Raised

InitValidate ==
  /\ CoreInit(Unbound) /\ recording = TRUE /\ ServerIdle /\ ReaderIdle /\ LockIdle /\ StartupIdle /\ UpdateIdle
  /\ response \in Responses
  /\ returned = "pending"

\* one call of validate_card_with_database runs to its end
ValidateCall ==
  /\ returned = "pending"
  /\ returned' = validate_card_with_database_call(response)
  /\ UNCHANGED <<core, recording, lockVars, startupVars, updateVars, response, serverVars, readerVars>>

\* the next call
ValidateAgain ==
  /\ returned # "pending"
  /\ \E r \in Responses : response' = r
  /\ returned' = "pending"
  /\ UNCHANGED <<core, recording, lockVars, startupVars, updateVars, serverVars, readerVars>>

NextValidate ==
  \/ ValidateCall
  \/ ValidateAgain

SpecValidate == InitValidate /\ [][NextValidate]_vars

\* ------------------------------------------------------------- server.py

\* Thread.is_alive(): from start() until the target has returned
is_alive(t) == srv[t] # "dead"

\* start_server_in_thread without the test of lines 62-64
start_server_in_thread_Unguarded ==
  /\ calls < MaxCalls
  /\ calls' = calls + 1
  /\ srv' = Append(srv, "starting")
  /\ server_thread' = Len(srv) + 1

\* server.py lines 54-73, one call from entry to return
start_server_in_thread ==
  /\ calls < MaxCalls
  /\ calls' = calls + 1
  /\ IF server_thread # 0 /\ is_alive(server_thread)
     THEN UNCHANGED <<srv, server_thread>>              \* lines 62-64
     ELSE /\ srv' = Append(srv, "starting")             \* lines 72, 73
          /\ server_thread' = Len(srv) + 1

\* a caller of the module calls start_server_in_thread
StartCall ==
  /\ caller = "idle"
  /\ start_server_in_thread
  /\ UNCHANGED <<core, recording, lockVars, startupVars, updateVars, callVars, caller, readerVars>>

\* server_reload_helper.py lines 22-29: stop_server() asks the running server
\* to stop (socketio.stop(), server.py 44-47); the caller then sleeps
RestartStop ==
  /\ caller = "idle"
  /\ caller' = "sleeping"
  /\ UNCHANGED <<core, recording, lockVars, startupVars, updateVars, callVars, srv, server_thread, calls, readerVars>>

\* server_reload_helper.py line 32
RestartStart ==
  /\ caller = "sleeping"
  /\ start_server_in_thread
  /\ caller' = "idle"
  /\ UNCHANGED <<core, recording, lockVars, startupVars, updateVars, callVars, readerVars>>

\* server.py lines 66-68 and 33-34: socketio.run has bound its port and serves
ServerBinds(t) ==
  /\ srv[t] = "starting"
  /\ srv' = [srv EXCEPT ![t] = "serving"]
  /\ UNCHANGED <<core, recording, lockVars, startupVars, updateVars, callVars, server_thread, caller, calls, readerVars>>

\* server.py lines 68-70: run_server returns (the server was stopped) or
\* raises (e.g. the port is taken); the target returns and the thread ends
ServerExits(t) ==
  /\ is_alive(t)
  /\ srv' = [srv EXCEPT ![t] = "dead"]
  /\ UNCHANGED <<core, recording, lockVars, startupVars, updateVars, callVars, server_thread, caller, calls, readerVars>>

InitServer ==
  CoreInit(Unbound) /\ recording = TRUE /\ CallIdle /\ ServerIdle /\ ReaderIdle /\ LockIdle /\ StartupIdle /\ UpdateIdle

NextServer ==
  \/ StartCall
  \/ RestartStop
  \/ RestartStart
  \/ \E t \in DOMAIN srv : ServerBinds(t)
  \/ \E t \in DOMAIN srv : ServerExits(t)

SpecServer == InitServer /\ [][NextServer]_vars

\* ------------------------------------------------------- the reader handle

\* The specifications of card_check_loop take a read for its result.  Here
\* the handle the reads use is followed: the Poller inside
\* try_connect_and_get_uid (called at lines 558, 585, 655, 659), and the
\* thread a client starts with the reinitialize_nfc_reader event.

\* lines 393-398: the reader is created when there is none.  (A call that
\* finds no library, or whose nfc.Reader() raises, returns None and leaves
\* reader as it is.)
PollerEnsureReader ==
  /\ rd = "out"
  /\ IF reader = 0
     THEN /\ made < MaxHandles
          /\ made' = made + 1
          /\ reader' = made + 1
          /\ open' = open \cup {made + 1}
     ELSE UNCHANGED <<reader, made, open>>
  /\ rd' = "in"
  /\ UNCHANGED <<core, recording, lockVars, startupVars, updateVars, callVars, serverVars, reinit, nfc_reader_available>>

\* lines 402-427: connect() and get_uid() on whatever reader refers to now;
\* every exception is caught and the call returns.  A uid was read (line
\* 411) or not (415, 426).
PollerUseReader ==
  /\ rd = "in"
  /\ rd' = "out"
  /\ \E o \in ReaderOutcomes \ {"no_library", "create_raises"} :
       nfc_reader_available' = (try_connect_and_get_uid(o) # None)
  /\ UNCHANGED <<core, recording, lockVars, startupVars, updateVars, callVars, serverVars, reader, made, open, reinit>>

\* lines 1408-1432: the handler starts the thread reinit_reader
ReinitRequested ==
  /\ reinit = "idle"
  /\ reinit' = "cleanup"
  /\ UNCHANGED <<core, recording, lockVars, startupVars, updateVars, callVars, serverVars, reader, made, open, rd,
                 nfc_reader_available>>

\* line 1415, cleanup_nfc_reader (46-60): close the instance and drop it;
\* then the sleep of line 1416
ReinitCleanup ==
  /\ reinit = "cleanup"
  /\ open' = open \ {reader}
  /\ reader' = 0
  /\ nfc_reader_available' = IF reader # 0 THEN FALSE ELSE nfc_reader_available
  /\ reinit' = "test"
  /\ UNCHANGED <<core, recording, lockVars, startupVars, updateVars, callVars, serverVars, made, rd>>

\* line 1417, test_nfc_reader_availability (324-377): create an instance if
\* there is none (336-342), or fail to (352-377); the thread ends
ReinitTest ==
  /\ reinit = "test"
  /\ \/ /\ reader = 0                             \* lines 336-346
        /\ made < MaxHandles
        /\ made' = made + 1
        /\ reader' = made + 1
        /\ open' = open \cup {made + 1}
        /\ nfc_reader_available' = TRUE
     \/ /\ reader # 0                             \* lines 336, 344
        /\ nfc_reader_available' = TRUE
        /\ UNCHANGED <<reader, made, open>>
     \/ /\ reader = 0                             \* lines 337-340, or 352-377
        /\ nfc_reader_available' = FALSE
        /\ UNCHANGED <<reader, made, open>>
  /\ reinit' = "idle"
  /\ UNCHANGED <<core, recording, lockVars, startupVars, updateVars, callVars, serverVars, rd>>

InitReader ==
  CoreInit(Unbound) /\ recording = TRUE /\ CallIdle /\ ServerIdle /\ ReaderIdle /\ LockIdle /\ StartupIdle /\ UpdateIdle

NextReader ==
  \/ PollerEnsureReader
  \/ PollerUseReader
  \/ ReinitRequested
  \/ ReinitCleanup
  \/ ReinitTest

SpecReader == InitReader /\ [][NextReader]_vars

\* ------------------------------------------------ pending_validations_lock

\* The specifications of card_check_loop take each "with
\* pending_validations_lock:" block for one step.  Here the blocks are taken
\* apart: a thread enters a block by acquiring the lock, works on
\* pending_validations inside it, and releases the lock on leaving it.  The
\* Poller enters its blocks for any uid; a Validator is followed from its
\* start to the finally clause of line 524.

\* all of core that the blocks do not touch
outsideRegistry == <<pc, uid, sampled_uid, checks, cur, rip, last_uid, g_rip,
                     ep, watch, events, faults>>

lockFrame == <<outsideRegistry, recording, callVars, serverVars, readerVars, startupVars, updateVars>>

\* lines 613, 643, 665, 689: the Poller enters a block that looks up a token
P_EnterGet ==
  /\ ppc = "out"
  /\ lock = Unlocked
  /\ lock' = PollerId
  /\ ppc' = "get"
  /\ \E u \in Uids : key' = u
  /\ UNCHANGED <<pending, val, lockFrame>>

\* lines 614-616, 644-646, 666-670, 690-692: pending_validations.get(...);
\* the block is left and the token found, if any, is set
P_Get ==
  /\ ppc = "get"
  /\ lock' = Unlocked
  /\ ppc' = "out"
  /\ key' = None
  /\ val' = IF pending[key] # 0
            THEN [val EXCEPT ![pending[key]].cancel = TRUE]
            ELSE val
  /\ UNCHANGED <<pending, lockFrame>>

\* line 630: the Poller enters the block of the spawn step
P_EnterSpawn ==
  /\ ppc = "out"
  /\ lock = Unlocked
  /\ FreeSlots # {}
  /\ lock' = PollerId
  /\ ppc' = "check"
  /\ \E u \in Uids : key' = u
  /\ UNCHANGED <<pending, val, lockFrame>>

\* line 631: if sampled_uid not in pending_validations; the block is left
\* when there is an entry
P_Check ==
  /\ ppc = "check"
  /\ IF pending[key] = 0
     THEN ppc' = "insert" /\ UNCHANGED <<lock, key>>
     ELSE ppc' = "out" /\ lock' = Unlocked /\ key' = None
  /\ UNCHANGED <<pending, val, lockFrame>>

\* lines 632-636: the entry is made and the thread started; the block is left
P_Insert ==
  /\ ppc = "insert"
  /\ \E i \in FreeSlots :
       /\ pending' = [pending EXCEPT ![key] = i]
       /\ val' = [val EXCEPT ![i] = [IdleSlot EXCEPT !.pc = "v_start", !.uid = key]]
  /\ lock' = Unlocked
  /\ ppc' = "out"
  /\ key' = None
  /\ UNCHANGED lockFrame

\* lines 465-523: the Validator runs up to its finally clause
V_ReachFinally(i) ==
  /\ val[i].pc = "v_start"
  /\ val' = [val EXCEPT ![i].pc = "v_pop"]
  /\ UNCHANGED <<pending, lockVars, lockFrame>>

\* V_EnterPop for a Validator that goes on without the lock
V_EnterPop_Unlocked(i) ==
  /\ val[i].pc = "v_pop"
  /\ val' = [val EXCEPT ![i].pc = "v_locked"]
  /\ UNCHANGED <<pending, lockVars, lockFrame>>

\* line 526: the Validator enters the block
V_EnterPop(i) ==
  /\ val[i].pc = "v_pop"
  /\ lock = Unlocked
  /\ lock' = i
  /\ val' = [val EXCEPT ![i].pc = "v_locked"]
  /\ UNCHANGED <<pending, ppc, key, lockFrame>>

\* lines 527-534: pending_validations.pop(uid, None); the block is left and
\* the thread ends
V_PopLocked(i) ==
  /\ val[i].pc = "v_locked"
  /\ pending' = [pending EXCEPT ![val[i].uid] = 0]
  /\ lock' = IF lock = i THEN Unlocked ELSE lock
  /\ val' = [val EXCEPT ![i] = IdleSlot]
  /\ UNCHANGED <<ppc, key, lockFrame>>

InitLock ==
  CoreInit(False) /\ recording = TRUE /\ CallIdle /\ ServerIdle /\ ReaderIdle /\ LockIdle /\ StartupIdle /\ UpdateIdle

NextLock ==
  \/ P_EnterGet
  \/ P_Get
  \/ P_EnterSpawn
  \/ P_Check
  \/ P_Insert
  \/ \E i \in Slots : V_ReachFinally(i)
  \/ \E i \in Slots : V_EnterPop(i)
  \/ \E i \in Slots : V_PopLocked(i)

SpecLock == InitLock /\ [][NextLock]_vars

\* The loop body and the Validators with a Notifier that can fail: any
\* socketio.emit call of the Poller may raise.  (The emits of
\* validate_card_async are each inside try / except Exception: pass, lines
\* 468-523: a call that raises there changes nothing but the delivery.)
(***************************************************************************)
(* The startup retry loop of the main thread (app.py, lines 1709-1769).     *)
(* run_server blocks while the server serves; it returns, is interrupted,   *)
(* or raises.  The other process holding the port comes and goes on its own.*)
(***************************************************************************)
startupFrame == <<core, recording, callVars, serverVars, readerVars, lockVars, updateVars>>

\* lines 1710-1712, with the command line (args.kill_port) and the port as found
StartupBegin ==
  /\ mpc = "before"
  /\ mpc' = "loop"
  /\ startup_attempt' = 0
  /\ server_started' = FALSE
  /\ kill_port' \in BOOLEAN
  /\ port_busy' \in BOOLEAN
  /\ UNCHANGED <<left_by, port_wait, startupFrame>>

\* lines 1714-1722: the while test, the increment and the call of run_server
LoopTest ==
  /\ mpc = "loop"
  /\ IF ~server_started /\ startup_attempt < max_startup_attempts
       THEN /\ startup_attempt' = startup_attempt + 1
            /\ mpc' = "serving"
            /\ UNCHANGED left_by
       ELSE /\ mpc' = "done"
            /\ left_by' = "condition"
            /\ UNCHANGED startup_attempt
  /\ UNCHANGED <<server_started, port_busy, kill_port, port_wait, startupFrame>>

\* line 1723: run_server returned
ServerReturns ==
  /\ mpc = "serving"
  /\ server_started' = TRUE
  /\ mpc' = "loop"
  /\ UNCHANGED <<startup_attempt, port_busy, kill_port, left_by, port_wait, startupFrame>>

\* lines 1725-1727: KeyboardInterrupt out of run_server
ServerInterrupted ==
  /\ mpc = "serving"
  /\ mpc' = "done"
  /\ left_by' = "interrupt"
  /\ UNCHANGED <<startup_attempt, server_started, port_busy, kill_port, port_wait, startupFrame>>

\* lines 1733-1759: an exception whose message names the port; lines 1736-1743
\* may free the port when the user asked for it
ServerFailsPort ==
  /\ mpc = "serving"
  /\ port_busy' \in (IF kill_port THEN {port_busy, FALSE} ELSE {port_busy})
  /\ IF startup_attempt < max_startup_attempts
       THEN mpc' = "waiting" /\ UNCHANGED left_by
       ELSE mpc' = "done" /\ left_by' = "break"
  /\ UNCHANGED <<startup_attempt, server_started, kill_port, port_wait, startupFrame>>

\* lines 1760-1769: any other exception
ServerFailsOther ==
  /\ mpc = "serving"
  /\ IF startup_attempt < max_startup_attempts
       THEN mpc' = "sleeping" /\ UNCHANGED left_by
       ELSE mpc' = "done" /\ left_by' = "break"
  /\ UNCHANGED <<startup_attempt, server_started, port_busy, kill_port, port_wait, startupFrame>>

\* wait_for_port_available without the timeout of line 1614
wait_for_port_available_NoTimeout ==
  /\ mpc = "waiting"
  /\ ~port_busy
  /\ port_wait' = True
  /\ mpc' = "loop"
  /\ UNCHANGED <<startup_attempt, server_started, port_busy, kill_port, left_by, startupFrame>>

\* lines 1600-1618 as called at line 1749: True once the port is free, False
\* when max_wait_time has passed; lines 1751 and 1754 continue either way
wait_for_port_available ==
  /\ mpc = "waiting"
  /\ \/ ~port_busy /\ port_wait' = True
     \/ port_wait' = False
  /\ mpc' = "loop"
  /\ UNCHANGED <<startup_attempt, server_started, port_busy, kill_port, left_by, startupFrame>>

\* lines 1765-1766: time.sleep(5) returns
SleepEnds ==
  /\ mpc = "sleeping"
  /\ mpc' = "loop"
  /\ UNCHANGED <<startup_attempt, server_started, port_busy, kill_port, left_by, port_wait, startupFrame>>

\* KeyboardInterrupt inside the except clause (lines 1749, 1765): no handler
\* of the loop catches it
WaitInterrupted ==
  /\ mpc \in {"waiting", "sleeping"}
  /\ mpc' = "done"
  /\ left_by' = "uncaught"
  /\ UNCHANGED <<startup_attempt, server_started, port_busy, kill_port, port_wait, startupFrame>>

\* another process binds or releases the port
PortChanges ==
  /\ mpc \notin {"before", "done"}
  /\ port_busy' = ~port_busy
  /\ UNCHANGED <<mpc, startup_attempt, server_started, kill_port, left_by, port_wait, startupFrame>>

MainThread ==
  \/ StartupBegin
  \/ LoopTest
  \/ wait_for_port_available
  \/ SleepEnds

InitStartup ==
  CoreInit(Unbound) /\ recording = TRUE /\ CallIdle /\ ServerIdle /\ ReaderIdle /\ LockIdle /\ StartupIdle /\ UpdateIdle

NextStartup ==
  \/ StartupBegin
  \/ LoopTest
  \/ ServerReturns
  \/ ServerInterrupted
  \/ ServerFailsPort
  \/ ServerFailsOther
  \/ wait_for_port_available
  \/ SleepEnds
  \/ WaitInterrupted
  \/ PortChanges

SpecStartup == InitStartup /\ [][NextStartup]_vars

\* the main thread runs: the while test, the bounded wait and the sleep all
\* return; how long run_server serves is left open
SpecStartupFair == SpecStartup /\ WF_vars(MainThread)

(***************************************************************************)
(* perform_update (app.py, lines 929-997) with the functions it calls, one  *)
(* step per call.  The release service, the file system and the download   *)
(* answer in every way their callers distinguish.                           *)
(***************************************************************************)
updateFrame == <<core, recording, callVars, serverVars, readerVars, lockVars, startupVars>>

\* lines 724-746: the latest release when its tag differs from the tag of the
\* version file (line 734), None otherwise and on every failure
check_for_updates(answer, latest) ==
  IF answer = "ok" /\ latest # version_file THEN latest ELSE NoRelease

\* lines 931-958: the check and the update_check_complete event
CheckStep ==
  /\ upc = "idle"
  /\ \E answer \in {"ok", "http_error", "raises"}, latest \in Tags :
       LET r == check_for_updates(answer, latest)
       IN /\ release_info' = r
          /\ uevents' = <<"update_check_complete">>
          /\ IF r = NoRelease
               THEN upc' = "done" /\ update_result' = False      \* line 946
               ELSE upc' = "backup" /\ UNCHANGED update_result
  /\ ulog' = <<"check_for_updates">>
  /\ replaced' = {} /\ backup_dir' = None /\ downloaded' = None
  /\ UNCHANGED <<version_file, staged, updateFrame>>

\* lines 961-968 without the test of line 962
BackupStep_IgnoresFailure ==
  /\ upc = "backup"
  /\ backup_dir' \in {True, False}
  /\ ulog' = Append(ulog, "backup_current_files")
  /\ upc' = "download"
  /\ UNCHANGED <<release_info, version_file, downloaded, staged, replaced, update_result,
                 uevents, updateFrame>>

\* lines 961-968: backup_current_files (748-777) returns a path, or None when
\* anything in it raised
BackupStep ==
  /\ upc = "backup"
  /\ backup_dir' \in {True, False}
  /\ ulog' = Append(ulog, "backup_current_files")
  /\ IF backup_dir' = True
       THEN upc' = "download" /\ UNCHANGED <<update_result, uevents>>
       ELSE /\ uevents' = Append(uevents, "update_error")
            /\ update_result' = False
            /\ upc' = "done"
  /\ UNCHANGED <<release_info, version_file, downloaded, staged, replaced, updateFrame>>

\* lines 779-849: download_release_files.  It writes app.py.new and
\* index.html.new only; it returns False without a tarball url, on an HTTP
\* error and when it raised (the files moved before that stay), and whether
\* the tarball held one of the two files otherwise.
DownloadStep ==
  /\ upc = "download"
  /\ \E answer \in {"ok", "no_url", "http_error", "raises"}, got \in SUBSET Files :
       /\ answer \in {"no_url", "http_error"} => got = {}
       /\ staged' = staged \cup got
       /\ downloaded' = IF answer = "ok" /\ got # {} THEN True ELSE False
  /\ ulog' = Append(ulog, "download_release_files")
  /\ IF downloaded' = True
       THEN upc' = "apply" /\ UNCHANGED <<update_result, uevents>>
       ELSE /\ uevents' = Append(uevents, "update_error")       \* lines 973-977
            /\ update_result' = False
            /\ upc' = "done"
  /\ UNCHANGED <<release_info, version_file, backup_dir, replaced, updateFrame>>

\* lines 851-927 and 980-989: apply_update replaces the target of every .new
\* file (a replacement that fails removes the .new file); with at least one
\* file replaced it saves the version and emits system_updated
ApplyStep ==
  /\ upc = "apply"
  /\ \E done \in SUBSET staged :
       /\ replaced' = done
       /\ IF done # {}
            THEN /\ version_file' = release_info                 \* lines 894-900
                 /\ uevents' = Append(uevents, "system_updated")
                 /\ update_result' = True
            ELSE /\ uevents' = Append(uevents, "update_error")   \* lines 985-989
                 /\ update_result' = False
                 /\ UNCHANGED version_file
  /\ staged' = {}
  /\ ulog' = Append(ulog, "apply_update")
  /\ upc' = "done"
  /\ UNCHANGED <<release_info, backup_dir, downloaded, updateFrame>>

\* perform_update has returned; lines 1373 and 1395 call it again
UpdateReturns ==
  /\ upc = "done"
  /\ upc' = "idle"
  /\ update_result' = None
  /\ UNCHANGED <<release_info, version_file, backup_dir, downloaded, staged, replaced,
                 uevents, ulog, updateFrame>>

\* the version file and the .new files as earlier runs can have left them
InitUpdate ==
  /\ CoreInit(Unbound) /\ recording = TRUE /\ CallIdle /\ ServerIdle /\ ReaderIdle /\ LockIdle
  /\ StartupIdle
  /\ upc = "idle" /\ release_info = NoRelease /\ version_file \in 0..MaxTag
  /\ backup_dir = None /\ downloaded = None /\ staged \in SUBSET Files /\ replaced = {}
  /\ update_result = None /\ uevents = << >> /\ ulog = << >>

NextUpdate ==
  \/ CheckStep
  \/ BackupStep
  \/ DownloadStep
  \/ ApplyStep
  \/ UpdateReturns

SpecUpdate == InitUpdate /\ [][NextUpdate]_vars

NextFaults ==
  \/ NextLoop
  \/ PollerEmitRaises
  \/ HandleException
  \/ HandleExceptionEmit
  \/ HandleExceptionEmitRaises

SpecFaults == InitLoop /\ [][NextFaults]_vars

\* every step of both threads, from either frame
NextAll ==
  \/ NextLoop
  \/ PassiveRemoved
  \/ PassiveRemovedEmit
  \/ HandleException
  \/ HandleExceptionEmit

SpecAll == (Init \/ InitLoop) /\ [][NextAll]_vars

TypeOK ==
  /\ pc \in {"tick", "begin", "stab", "post", "rm_cancel", "spawn", "removed",
             "removed_emit", "grace", "grace_final", "gc_emit", "except",
             "exc_emit", "sleep", "dead"}
  /\ uid \in ReadResults /\ sampled_uid \in ReadResults /\ cur \in ReadResults
  /\ checks \in 0..CARD_STABILITY_CHECKS
  /\ rip \in {Unbound, True, False}
  /\ last_uid \in ReadResults
  /\ g_rip \in BOOLEAN
  /\ pending \in [Uids -> 0..MaxValidators]
  /\ ep \in 0..MaxEpisodes
  /\ watch \in 0..ep
  /\ recording \in BOOLEAN
  /\ response \in Responses \cup {NoResponse}
  /\ returned \in {None, "pending", True, False}
  /\ srv \in Seq({"starting", "serving", "dead"}) /\ Len(srv) <= calls
  /\ server_thread \in 0..Len(srv)
  /\ caller \in {"idle", "sleeping"}
  /\ calls \in 0..MaxCalls
  /\ made \in 0..MaxHandles /\ reader \in 0..made /\ open \subseteq 1..made
  /\ rd \in {"out", "in"}
  /\ reinit \in {"idle", "cleanup", "test"}
  /\ nfc_reader_available \in BOOLEAN
  /\ lock \in {Unlocked, PollerId} \cup Slots
  /\ ppc \in {"out", "get", "check", "insert"}
  /\ key \in Uids \cup {None}
  /\ mpc \in {"before", "loop", "serving", "waiting", "sleeping", "done"}
  /\ startup_attempt \in 0..max_startup_attempts
  /\ server_started \in BOOLEAN /\ port_busy \in BOOLEAN /\ kill_port \in BOOLEAN
  /\ left_by \in {"none", "condition", "break", "interrupt", "uncaught"}
  /\ port_wait \in {None, True, False}
  /\ upc \in {"idle", "backup", "download", "apply", "done"}
  /\ release_info \in {NoRelease} \cup Tags /\ version_file \in 0..MaxTag
  /\ backup_dir \in {None, True, False} /\ downloaded \in {None, True, False}
  /\ staged \subseteq Files /\ replaced \subseteq Files
  /\ update_result \in {None, True, False}
  /\ Len(ulog) <= 4 /\ Len(uevents) <= 2
  /\ \A i \in Slots : val[i].sent \in 0..1 /\ val[i].cancel \in BOOLEAN
  /\ Len(events) > 0 => events[1].e = watch
  /\ Len(faults) <= MaxFaults

\* ------------------------------------------------------------------ claims

Count(names) == Cardinality({k \in DOMAIN events : events[k].n \in names})

CountBy(names, by) ==
  Cardinality({k \in DOMAIN events : events[k].n \in names /\ events[k].by = by})

\* a Validator that has been started and has not yet removed its registry entry
Registered(i) == val[i].pc \in {"v_start", "v_call", "v_cancelled", "v_result", "v_pop"}

\* the sampling loop of the episode on record counted CARD_STABILITY_CHECKS
\* equal samples (the card_progress of line 591 with checks = CARD_STABILITY_CHECKS)
EpisodeStable ==
  \E k \in DOMAIN events :
    /\ events[k].n = "card_progress"
    /\ events[k].by = "P"
    /\ events[k].p = StabilityProgress(CARD_STABILITY_CHECKS)

\* the step moves no Validator: it is a step of the Poller
NoValidatorMoves == \A i \in Slots : val'[i].pc = val[i].pc

C4_TokenSeenAtCheck ==
  \A i \in Slots :
    (val[i].pc = "v_call" /\ val[i].cancel /\ val'[i].pc # "v_call")
      => val'[i].pc = "v_cancelled"

C4_CancelledBranch ==
  \A i \in Slots :
    (val[i].ep = watch /\ val[i].pc # "idle")
      => /\ val[i].pc = "v_cancelled"
              => /\ CountBy(Terminal, "V") = 0
                 /\ \A k \in DOMAIN events : events[k].by = "V" => events[k].p # 100
         /\ (val[i].pc \in {"v_pop", "v_clear"}
             /\ CountBy({"card_processing_cancelled"}, "V") >= 1)
              => /\ CountBy(Terminal, "V") = 1
                 /\ \A k \in DOMAIN events : events[k].by = "V" => events[k].p # 100

C4_ValidatorCheckpoint ==
  [][C4_TokenSeenAtCheck]_vars /\ []C4_CancelledBranch

C4_Witness ==
  \E i \in Slots :
    /\ val[i].pc = "v_pop"
    /\ val[i].cancel
    /\ val[i].ep = watch
    /\ CountBy({"card_processing_cancelled"}, "V") = 1

\* C5: no two registered Validators work on the same uid, and a spawn step
\* that finds an entry for its uid starts no thread and leaves the registry
\* as it is.
C5_OnePerUid ==
  \A i \in Slots : \A j \in Slots :
    (i # j /\ Registered(i) /\ Registered(j)) => val[i].uid # val[j].uid

C5_DuplicateIgnored ==
  (pc = "spawn" /\ pc' # "spawn" /\ pending[sampled_uid] # 0)
    => /\ pending' = pending
       /\ \A i \in Slots : val[i].pc = "idle" => val'[i].pc = "idle"

C6_EntryIffInFlight ==
  /\ \A u \in Uids :
       pending[u] # 0 => (Registered(pending[u]) /\ val[pending[u]].uid = u)
  /\ \A i \in Slots : Registered(i) => pending[val[i].uid] = i

C6_RemovedByOwner ==
  \A u \in Uids :
    (pending[u] # 0 /\ pending'[u] # pending[u])
      => /\ pending'[u] = 0
         /\ val[pending[u]].pc = "v_pop"
         /\ val'[pending[u]].pc = "v_clear"

C6_Registry == []C6_EntryIffInFlight /\ [][C6_RemovedByOwner]_vars

C6_Witness ==
  \E i \in Slots :
    /\ val[i].pc = "v_clear"
    /\ val[i].cancel
    /\ pending[val[i].uid] = 0

C9_Debounce ==
  [][(NoValidatorMoves
      /\ (\/ (pc = "tick" /\ rip = True)
          \/ pc = "grace"
          \/ (pc = "grace_final" /\ cur' # None)))
       => /\ UNCHANGED <<val, events, ep, last_uid, rip, pending>>
          /\ pc' \in {"tick", "grace", "grace_final", "sleep"}]_vars

C9_Witness ==
  /\ pc = "sleep"
  /\ uid = None
  /\ cur = "A"
  /\ last_uid = "A"
  /\ watch = ep
  /\ \E i \in Slots : Registered(i) /\ val[i].uid = "A" /\ ~val[i].cancel /\ val[i].ep = ep

\* C10: Scenario A up to the end of its tick: when a tick has read a uid U
\* and no other uid, an episode has begun in it; its record begins with
\* card_processing(U), every card_progress of it is at least 10, and it holds
\* no card_processing_cancelled and no card_validation_error.
C10_ScenarioA ==
  \A U \in Uids :
    (pc = "sleep" /\ uid = U /\ cur \in {None, U})
      => /\ ep >= 1
         /\ watch = ep
              => /\ events # << >>
                 /\ events[1].n = "card_processing"
                 /\ events[1].u = U
                 /\ \A k \in DOMAIN events :
                      events[k].n = "card_progress" => events[k].p >= 10
                 /\ Count({"card_processing_cancelled", "card_validation_error"}) = 0

\* events of the record emitted by a Validator
ByValidator == {k \in DOMAIN events : events[k].by = "V"}

\* C11: Scenario B.  A tick that reads a uid U while idle runs the Detection
\* Protocol (card_processing is emitted and the sampling runs).  When a
\* sample reads none before the sampling is complete, the record of the
\* episode is card_processing(U), its card_progress, card_processing_cancelled;
\* no Validator was spawned for the episode and none is spawned by the
\* removal branch; card_success / card_unauthorized are not in the record;
\* the branch clears the tracked uid and the Poller is back at the read of
\* the next tick.
C11_RemovalState ==
  /\ \A U \in Uids :
       (pc = "sleep" /\ uid = U) => (ep >= 1 /\ sampled_uid # None)
  /\ pc = "rm_cancel"
       => /\ rip = False
          /\ ~InFlightFor(ep)
          /\ watch = ep
               => /\ Len(events) >= 3
                  /\ events[1].n = "card_processing" /\ events[1].u = uid
                  /\ \A k \in 2..(Len(events) - 1) : events[k].n = "card_progress"
                  /\ events[Len(events)].n = "card_processing_cancelled"
                  /\ ByValidator = {}
  /\ (watch # 0 /\ \A k \in DOMAIN events : events[k].p # 60)
       => /\ ByValidator = {}
          /\ Count({"card_success", "card_unauthorized"}) = 0

C11_RemovalStep ==
  (pc = "rm_cancel" /\ pc' # "rm_cancel")
    => /\ last_uid' = None
       /\ pc' = "tick"
       /\ \A i \in Slots : val[i].pc = "idle" => val'[i].pc = "idle"

C11_ScenarioB == []C11_RemovalState /\ [][C11_RemovalStep]_vars

TerminalUidAnnounced ==
  \A j \in DOMAIN events :
    (events[j].n \in Terminal /\ events[j].u \in Uids)
      => \E k \in 1..(j - 1) :
           events[k].n = "card_processing" /\ events[k].u = events[j].u

VerdictStep(i) == val[i].pc = "v_result" /\ val'[i].pc = "v_pop"

\* C15: a validation call that times out, fails at the transport level or
\* raises is answered False by validate_card_with_database, and the Validator
\* that made it emits a verdict that is not card_success.
C15_FailedIsNotValid ==
  \A i \in Slots :
    (val[i].pc = "v_result" /\ val[i].outcome = "failed") => ~val[i].is_valid

C15_NoSuccessOnFailure ==
  \A i \in Slots :
    (VerdictStep(i) /\ val[i].outcome = "failed" /\ val[i].ep = watch)
      => /\ Len(events') = Len(events) + 2
         /\ events'[Len(events') - 1].n # "card_success"
         /\ events'[Len(events')].n # "card_success"

C15_FailClosed == []C15_FailedIsNotValid /\ [][C15_NoSuccessOnFailure]_vars

C15_Witness ==
  \E i \in Slots :
    /\ val[i].pc = "v_result"
    /\ val[i].outcome = "failed"
    /\ val[i].ep = watch
    /\ ~val[i].cancel

InFlight == {i \in Slots : val[i].pc # "idle"}

C20_OneSessionAtATime ==
  [][(ep' = ep + 1 /\ watch = ep)
       => \A i \in Slots :
            (val[i].ep = ep /\ val[i].pc \in {"v_start", "v_call", "v_cancelled", "v_result"})
              => \/ val[i].cancel
                 \/ CountBy({"card_processing_cancelled"}, "P") >= 1]_vars

C20_Witness ==
  /\ pc = "begin"
  /\ watch = ep
  /\ CountBy({"card_processing_cancelled"}, "P") = 1
  /\ \E i \in Slots :
       /\ val[i].ep = ep
       /\ val[i].pc = "v_call"
       /\ val[i].uid # uid

C27_OwnTerminalEvent ==
  \A i \in Slots :
    val[i].sent = IF val[i].pc \in {"v_pop", "v_clear"} THEN 1 ELSE 0

C27_CleanupFollows ==
  \A i \in Slots :
    /\ (val[i].pc \in {"v_cancelled", "v_result"} /\ val'[i].pc # val[i].pc)
         => val'[i].pc = "v_pop"
    /\ (val[i].pc = "v_pop" /\ val'[i].pc # "v_pop")
         => (val'[i].pc = "v_clear" /\ pending'[val[i].uid] = 0)

C27_ValidatorTerminates ==
  /\ []C27_OwnTerminalEvent
  /\ [][C27_CleanupFollows]_vars
  /\ \A i \in Slots : (val[i].pc # "idle") ~> (val[i].pc = "idle")

C27_Witness ==
  \E i \in Slots :
    /\ val[i].pc = "v_clear"
    /\ val[i].cancel
    /\ val[i].sent = 1

\* C28: validate_card_with_database gives back True exactly for a response
\* with a status code in 200..299, False for every other status code and for
\* a call that ended in a timeout, a transport failure or any other
\* exception; it never raises.  What it gives back is what the Validator
\* takes as is_valid.
C28_ValidateTotal ==
  returned \notin {None, "pending"}
    => /\ returned = IF response.exc = None /\ response.status \in 200..299
                      THEN True ELSE False
       /\ (returned = True) <=> validate_card_with_database(StatusClass(response))

C28_Witness ==
  /\ response.exc = "timeout"
  /\ returned = False

\* C29: every read gives a uid or none, whatever the reader does (no
\* library, a failing nfc.Reader(), a failing connect() or get_uid(), an empty
\* response): try_connect_and_get_uid never raises.  A tick of the Poller
\* that reads none while no uid is tracked begins nothing and leaves the
\* tracked uid, the flag, the registry, the tokens and the emitted events as
\* they were.
C29_ReadIsUidOrNone ==
  /\ \A o \in ReaderOutcomes \ Uids : try_connect_and_get_uid(o) = None
  /\ {uid, cur} \subseteq Uids \cup {None}

C29_IdleTick ==
  (pc = "tick" /\ last_uid = None /\ NoValidatorMoves /\ pc' \notin {"begin", "except"})
    => UNCHANGED <<pc, last_uid, rip, pending, val, events>>

C29_NoCardIsNormal == []C29_ReadIsUidOrNone /\ [][C29_IdleTick]_vars

C29_Witness ==
  /\ pc = "tick"
  /\ last_uid = None
  /\ ep >= 1
  /\ Len(events) > 0

\* C30: of the threads start_server_in_thread has created at most one is
\* alive at any time, and a call made while the thread it created last is
\* alive creates no thread and keeps _server_thread.
C30_LiveServerThreads == {t \in DOMAIN srv : is_alive(t)}

C30_CallIgnoredWhileAlive ==
  (calls' = calls + 1 /\ server_thread # 0 /\ is_alive(server_thread))
    => UNCHANGED <<srv, server_thread>>

C30_AtMostOneServer ==
  /\ [](Cardinality(C30_LiveServerThreads) <= 1)
  /\ [][C30_CallIgnoredWhileAlive]_vars

C30_Witness ==
  /\ calls >= 2
  /\ Len(srv) = 1
  /\ is_alive(1)

\* C25: while the Poller runs, the reader handle is closed or replaced by
\* steps of the Poller only, and whenever the Poller is about to call
\* connect() and get_uid() the handle is the open instance it found or
\* created at the start of the call.
C25_OnlyPollerChangesReader ==
  (reader' # reader \/ open' # open) => rd' # rd

C25_ReaderOwnedByPoller ==
  /\ [][C25_OnlyPollerChangesReader]_vars
  /\ [](rd = "in" => reader \in open)

\* C24: a thread is inside a block that works on pending_validations only
\* while it holds pending_validations_lock, so no two threads are inside
\* such blocks at once; pending_validations is looked up, written and popped
\* only by the holder of the lock; and the Poller holds the lock without a
\* break from the test of the spawn step to the insertion, so the entry is
\* still absent when it is made.
C24_InsideBlock(t) ==
  IF t = PollerId THEN ppc # "out" ELSE val[t].pc = "v_locked"

C24_HolderOnly ==
  /\ \A t \in Slots \cup {PollerId} : C24_InsideBlock(t) => lock = t
  /\ ppc = "insert" => pending[key] = 0

C24_AccessByHolder ==
  /\ pending' # pending => (lock # Unlocked /\ lock' = Unlocked)
  /\ (ppc = "check" /\ ppc' = "insert") => (lock = PollerId /\ lock' = PollerId)

C24_RegistrySerialized == []C24_HolderOnly /\ [][C24_AccessByHolder]_vars

C24_Witness ==
  /\ ppc = "insert"
  /\ \E i \in Slots : val[i].pc = "v_pop" /\ val[i].uid # key

\* C31: a sample that reads another uid than the one being stabilised makes
\* that uid the target and sets the count of equal samples to zero, spawning
\* nothing; the Validator spawned at the end of the sampling, if any, is for
\* the last target and registered under it, and the episode has no Validator
\* for another uid.
C31_RetargetStep ==
  (pc = "stab" /\ <<pc, pollerLocals>>' # <<pc, pollerLocals>> /\ cur' \notin {None, sampled_uid})
    => (sampled_uid' = cur' /\ checks' = 0 /\ UNCHANGED <<val, pending>>)

C31_SpawnedForTarget ==
  (pc = "sleep" /\ sampled_uid # None)
    => \A i \in Slots :
         (val[i].pc # "idle" /\ val[i].ep = ep)
           => /\ val[i].uid = sampled_uid
              /\ Registered(i) => pending[sampled_uid] = i

C31_Retarget == []C31_SpawnedForTarget /\ [][C31_RetargetStep]_vars

C31_Witness ==
  /\ pc = "sleep"
  /\ sampled_uid # None
  /\ uid # sampled_uid
  /\ \E i \in Slots : val[i].ep = ep /\ val[i].uid = sampled_uid /\ pending[sampled_uid] = i

\* C32: a step of the Poller inside the stability sampling loop leaves the
\* tracked uid, the processing flag (the Poller's and the module global) and
\* the registry as they are, and starts no Validator: the validation
\* service, which only a Validator calls, is not called by it.
C32_SamplingIsPure ==
  [][(pc = "stab" /\ NoValidatorMoves)
       => UNCHANGED <<last_uid, rip, g_rip, pending, val>>]_vars

C32_Witness ==
  /\ pc = "post"
  /\ sampled_uid \notin {None, uid}
  /\ last_uid = uid
  /\ rip = True



\* C33: the startup loop makes at most max_startup_attempts start attempts and
\* always terminates: it is left after run_server returned, on
\* KeyboardInterrupt, or after the last failed attempt; after a port failure
\* with attempts remaining it tries again once the port is free or the wait
\* has timed out.
C33_Attempts == startup_attempt <= max_startup_attempts
C33_Left ==
  mpc = "done" =>
    \/ left_by = "condition" /\ server_started
    \/ left_by \in {"interrupt", "uncaught"}
    \/ left_by = "break" /\ startup_attempt = max_startup_attempts /\ ~server_started
C33_AttemptStep ==
  /\ (mpc # "serving" /\ mpc' = "serving") => startup_attempt' = startup_attempt + 1
  /\ startup_attempt' # startup_attempt => (mpc' = "serving" \/ mpc = "before")
  /\ (mpc = "waiting" /\ mpc' = "loop") => (port_wait' = False \/ (port_wait' = True /\ ~port_busy))
C33_Retries ==
  (mpc \in {"waiting", "sleeping"}) ~> (mpc \in {"serving", "done"})
C33_StartupLoop ==
  /\ []C33_Attempts
  /\ []C33_Left
  /\ [][C33_AttemptStep]_vars
  /\ C33_Retries
  /\ (<>(mpc = "done") \/ <>[](mpc = "serving"))
C33_Witness ==
  mpc = "done" /\ left_by = "break" /\ startup_attempt = max_startup_attempts /\ port_wait = False

C37_GuardEvaluates ==
  [][/\ pc' # "except"
     /\ (pc = "tick" /\ ep = 0 /\ last_uid = None /\ uid' # None)
          => (pc' = "begin" /\ rip' = True /\ last_uid' = uid')]_vars

C39_Applied == \E k \in DOMAIN ulog : ulog[k] = "apply_update"
C39_Order ==
  (C39_Applied \/ replaced # {})
    => /\ ulog = <<"check_for_updates", "backup_current_files", "download_release_files",
                   "apply_update">>
       /\ release_info # NoRelease
       /\ backup_dir = True
       /\ downloaded = True
C39_Failed ==
  (upc = "done" /\ (backup_dir = False \/ downloaded = False))
    => /\ replaced = {}
       /\ ~C39_Applied
       /\ uevents[Len(uevents)] = "update_error"
       /\ update_result = False
C39_UpdateGuarded ==
  /\ []C39_Order
  /\ []C39_Failed
  /\ [][version_file' # version_file
          => (upc = "apply" /\ backup_dir = True /\ downloaded = True /\ replaced' # {})]_vars
C39_Witness ==
  upc = "done" /\ downloaded = False /\ staged # {} /\ update_result = False /\ backup_dir = True

=============================================================================
